---- MODULE Spec2Model ----
(***************************************************************************)
(* Model of the logger package: the global logger registry (global,       *)
(* globalGuard, SetLogger, Logger, InitLogger, WatchAndRebuildLogger),     *)
(* the context propagation layer (ToContext, ContextWithKV,                *)
(* ContextWithTags, FromContext), the emission functions with their tag    *)
(* rendering (prepareTags) and the level-wrapping core (coreWithLevel).    *)
(*                                                                         *)
(* Go strings whose characters matter (tags, rendered tags) are sequences  *)
(* of one-character strings; other strings are TLA+ strings.  A Go         *)
(* interface{} value is a record whose only field names its dynamic type.  *)
(***************************************************************************)
EXTENDS Integers, Sequences, FiniteSets, TLC

VARIABLES
    ctxs,        \* the context values derived so far; index = identity, 0 = context.Background()
    heap,        \* backing arrays of the []string slices stored in contexts
    global,      \* var global *zap.SugaredLogger
    writer,      \* globalGuard: 1 while the write lock is held
    readers,     \* globalGuard: number of goroutines holding the read lock
    wpc,         \* position of the goroutine that reconfigures the logger
    warg,        \* the handle that goroutine is installing
    wop,         \* the entry point it came through, and the value that made it build warg
    watchCfg,    \* the *Config handed to WatchAndRebuildLogger
    installed,   \* argument and origin of the last SetLogger that returned (init: the package's init())
    racy,        \* whether the last unguarded read of global ran while the write lock was held
    ret,         \* the last value returned by Logger / FromContext / an error return
    emitted,     \* the last call made on a resolved *zap.SugaredLogger by an emission function
    lastKV,      \* what the last ContextWithKV call did (resolved handle, input, warnings)
    halted,      \* "run", or how the process ended: "panic" (nil dereference), "exit" (Fatal)
    core,        \* a coreWithLevel value under test
    checked      \* result of the last Enabled / Check call on core

vars == <<ctxs, heap, global, writer, readers, wpc, warg, wop, watchCfg,
          installed, racy, ret, emitted, lastKV, halted, core, checked>>

ctxVars  == <<ctxs, heap>>
regVars  == <<global, writer, readers, wpc, warg, wop, watchCfg, installed>>
gateVars == <<core, checked>>

-----------------------------------------------------------------------------
(* Bounds *)

MaxTagCtx == 4      \* contexts derived in SpecTags
MaxEmitCtx == 2     \* contexts derived in SpecEmit
MaxPinCtx == 2      \* contexts derived in SpecPin
MaxKV     == 4      \* length of a kvs argument list
MaxRegCtx == 1      \* contexts derived in Spec
MaxReaders == 1     \* goroutines inside Logger() at once
MaxWith   == 2      \* With calls on a coreWithLevel

-----------------------------------------------------------------------------
(* Values *)

Str(s)  == [str |-> s]
IntV(n) == [int |-> n]
Text(cs) == [text |-> cs]          \* a string given by its characters
IsString(v) == DOMAIN v \in {{"str"}, {"text"}}

None == [op |-> "none"]

RECURSIVE Flatten(_)
Flatten(ss) == IF ss = <<>> THEN <<>> ELSE Head(ss) \o Flatten(Tail(ss))

RECURSIVE Count(_, _)
Count(s, x) ==
    IF s = <<>> THEN 0 ELSE (IF Head(s) = x THEN 1 ELSE 0) + Count(Tail(s), x)

-----------------------------------------------------------------------------
(* zap levels and handles *)

InfoLevel == 0
\* a zap.AtomicLevel, by the level it holds
AtomicLevel(n) == [l |-> n]
Levels == -1 .. 5       \* zapcore.DebugLevel .. zapcore.FatalLevel

\* (*AtomicLevel).UnmarshalText as called by zapLevelFromString: the token as
\* is, then lower-cased; the empty string is info.
zapLevelFromString(s) ==
    CASE s \in {"debug", "DEBUG", "Debug"} -> [err |-> FALSE, lvl |-> AtomicLevel(-1)]
      [] s \in {"info", "INFO", "Info", ""} -> [err |-> FALSE, lvl |-> AtomicLevel(0)]
      [] s \in {"warn", "WARN", "Warn"}    -> [err |-> FALSE, lvl |-> AtomicLevel(1)]
      [] s \in {"error", "ERROR", "Error"} -> [err |-> FALSE, lvl |-> AtomicLevel(2)]
      [] s \in {"dpanic", "DPANIC"}        -> [err |-> FALSE, lvl |-> AtomicLevel(3)]
      [] s \in {"panic", "PANIC"}          -> [err |-> FALSE, lvl |-> AtomicLevel(4)]
      [] s \in {"fatal", "FATAL", "Fatal"} -> [err |-> FALSE, lvl |-> AtomicLevel(5)]
      [] OTHER                             -> [err |-> TRUE, lvl |-> AtomicLevel(0)]

\* Config, reduced to the fields New reads into the handle's base fields.
defaultCfg == [Version |-> "0.0.0", AppName |-> "app", Host |-> "localhost"]

getZapFields(config) ==
    (IF config.Version # "" THEN << <<Str("version"), Str(config.Version)>> >> ELSE <<>>)
    \o (IF config.AppName # "" THEN << <<Str("application_name"), Str(config.AppName)>> >> ELSE <<>>)
    \o (IF config.Host # "" THEN << <<Str("host"), Str(config.Host)>> >> ELSE <<>>)

\* A *zap.SugaredLogger: nil, or a core level and the fields bound with With.
NilLogger == [nil |-> TRUE, lvl |-> 0, fields |-> <<>>]

\* var level = zap.NewAtomicLevelAt(zap.InfoLevel); nothing ever sets it again.
level == AtomicLevel(InfoLevel)
NoLevel == [nilEnabler |-> TRUE]        \* a nil zapcore.LevelEnabler

New(lvl, cfg) ==
    [nil |-> FALSE, lvl |-> (IF lvl = NoLevel THEN level ELSE lvl).l,
     fields |-> getZapFields(cfg)]

\* (*zap.Logger).With: the same core level, the fields appended.
LoggerWith(l, fields) == [l EXCEPT !.fields = @ \o fields]

-----------------------------------------------------------------------------
(* Slices of strings *)

NilSlice == [arr |-> 0, len |-> 0]

Cap(h, s) == IF s.arr = 0 THEN 0 ELSE Len(h[s.arr])

ReadSlice(h, s) == [i \in 1 .. s.len |-> h[s.arr][i]]

\* The slice the compiler builds for a variadic call f(t1, ..., tn): nil for
\* no argument, else a fresh array of exactly n elements.
Variadic(h, tags) ==
    IF tags = <<>> THEN [heap |-> h, slice |-> NilSlice]
    ELSE [heap |-> Append(h, tags), slice |-> [arr |-> Len(h) + 1, len |-> Len(tags)]]

\* runtime.growslice for 16-byte elements below the 256-element threshold:
\* the new length if it exceeds twice the old capacity, else twice the old
\* capacity (every multiple of 16 bytes up to 256 is a malloc size class).
GrowCap(oldCap, newLen) ==
    IF newLen > oldCap + oldCap THEN newLen ELSE oldCap + oldCap

\* append(v, tags...): in place when the capacity allows, else into a grown copy.
GoAppend(h, v, tags) ==
    LET newLen == v.len + Len(tags) IN
    IF newLen <= Cap(h, v)
    THEN [heap |-> IF v.arr = 0 THEN h
                   ELSE [h EXCEPT ![v.arr] =
                            [i \in 1 .. Len(@) |->
                                IF i > v.len /\ i <= newLen THEN tags[i - v.len] ELSE @[i]]],
          slice |-> [arr |-> v.arr, len |-> newLen]]
    ELSE LET newCap == GrowCap(Cap(h, v), newLen) IN
         [heap |-> Append(h, [i \in 1 .. newCap |->
                                IF i <= v.len THEN h[v.arr][i]
                                ELSE IF i <= newLen THEN tags[i - v.len]
                                ELSE <<>>]),
          slice |-> [arr |-> Len(h) + 1, len |-> newLen]]

-----------------------------------------------------------------------------
(* Contexts *)

Background == 0
CtxIds == 0 .. Len(ctxs)

\* ctx.Value(key): the value of the nearest context of the chain that was
\* derived with this key.
RECURSIVE Value(_, _)
Value(c, key) ==
    IF c = Background THEN [ok |-> FALSE]
    ELSE IF ctxs[c].key = key THEN [ok |-> TRUE, val |-> ctxs[c].val, at |-> c]
    ELSE Value(ctxs[c].parent, key)

HasTags(c)   == Value(c, "tags").ok
HasLogger(c) == Value(c, "logger").ok

\* The tag list a context carries, as read through its slice now.
TagsOf(c)    == ReadSlice(heap, Value(c, "tags").val)
\* The tag list it was derived with: its parent's list followed by the arguments.
WantedTags(c) == ctxs[Value(c, "tags").at].call

\* Mutant: the attached logger is ignored.
FromContextGlobal(c) == global

FromContext(c) ==
    LET l == global
        v == Value(c, "logger")
    IN  IF v.ok THEN v.val ELSE l

WithValue(parent, key, val, call) ==
    Append(ctxs, [parent |-> parent, key |-> key, val |-> val, call |-> call])

ContextWithTags(c, tags) ==
    LET v == Value(c, "tags")
        a == Variadic(heap, tags)
        r == IF v.ok THEN GoAppend(a.heap, v.val, tags) ELSE a
    IN  /\ halted = "run"
        /\ heap' = r.heap
        /\ ctxs' = WithValue(c, "tags", r.slice,
                             (IF v.ok THEN WantedTags(c) ELSE <<>>) \o tags)

-----------------------------------------------------------------------------
(* Emission *)

tagsName == Str("hashtags")

\* strings.ReplaceAll(t, " ", "")
StripSpaces(t) == SelectSeq(t, LAMBDA ch : ch # " ")

RECURSIVE prepareTags(_)
prepareTags(tags) ==
    IF tags = <<>> THEN <<>>
    ELSE (<<"#">> \o StripSpaces(Head(tags)) \o <<" ">>) \o prepareTags(Tail(tags))

Severities == {"debug", "info", "warn", "error", "fatal"}
Shapes == {"args", "format", "kv"}

\* DebugKV / InfoKV / WarnKV / ErrorKV / FatalKV: the call made on the
\* resolved logger.
EmitKV(c, sev, kvs) ==
    [op |-> "emit", sev |-> sev, method |-> "w",
     kvs |-> IF HasTags(c) THEN kvs \o <<tagsName, Text(prepareTags(TagsOf(c)))>> ELSE kvs,
     tagged |-> HasTags(c), given |-> kvs, ctx |-> c, l |-> FromContext(c)]

\* Debug / Info / ... and Debugf / Infof / ...
EmitPlain(c, sev, shape) ==
    IF HasTags(c)
    THEN [EmitKV(c, sev, <<tagsName, Text(prepareTags(TagsOf(c)))>>) EXCEPT !.given = <<>>]
    ELSE [op |-> "emit", sev |-> sev, method |-> (IF shape = "format" THEN "f" ELSE "plain"),
          kvs |-> <<>>, tagged |-> FALSE, given |-> <<>>, ctx |-> c, l |-> FromContext(c)]

EmitCall(c, sev, shape, kvs) ==
    IF shape = "kv" THEN EmitKV(c, sev, kvs) ELSE EmitPlain(c, sev, shape)

Emit(c, sev, shape, kvs) ==
    LET e == EmitCall(c, sev, shape, kvs) IN
    /\ halted = "run"
    /\ shape # "kv" => kvs = <<>>
    /\ racy' = (writer = 1)
    /\ emitted' = e
    /\ halted' = IF e.l.nil THEN "panic" ELSE IF sev = "fatal" THEN "exit" ELSE "run"

-----------------------------------------------------------------------------
(* Initial state: after the package's init() *)

InitRegistry ==
    /\ global = New(level, defaultCfg)
    /\ writer = 0
    /\ readers = 0
    /\ wpc = "idle"
    /\ warg = NilLogger
    /\ wop = [by |-> "none", val |-> None]
    /\ watchCfg = defaultCfg
    /\ installed = [l |-> New(level, defaultCfg), by |-> "init", val |-> None]

InitCommon ==
    /\ ctxs = <<>>
    /\ heap = <<>>
    /\ InitRegistry
    /\ racy = FALSE
    /\ ret = None
    /\ emitted = None
    /\ lastKV = None
    /\ halted = "run"

NoCore == [inner |-> [lvl |-> InfoLevel, fields |-> <<>>], level |-> InfoLevel]

InitNoGate ==
    /\ core = NoCore
    /\ checked = None

-----------------------------------------------------------------------------------------------------------------------------------------------------
(* SpecTags: tag accumulation across nested and sibling derivations, and    *)
(* what an emission renders.  SpecEmit: every emission function on few      *)
(* contexts.                                                                *)

TagA == <<"a">>
TagB == <<"b", " ", "c">>
TagArgs == {<<>>, <<TagA>>, <<TagB>>, <<TagA, TagB>>}
EmitKVs == {<<>>, <<Str("port"), IntV(8080)>>}

DeriveTags(limit, args) ==
    \E c \in CtxIds, tags \in args :
        /\ Len(ctxs) < limit
        /\ ContextWithTags(c, tags)
        /\ UNCHANGED <<regVars, racy, ret, emitted, lastKV, halted, gateVars>>

EmitAny(sevs, shapes, kvss) ==
    \E c \in CtxIds, sev \in sevs, shape \in shapes, kvs \in kvss :
        /\ Emit(c, sev, shape, kvs)
        /\ UNCHANGED <<ctxVars, regVars, ret, lastKV, gateVars>>

TagsDerive == DeriveTags(MaxTagCtx, TagArgs)
TagsEmit   == EmitAny({"info"}, {"args"}, {<<>>})

InitTags == InitCommon /\ InitNoGate
NextTags == TagsDerive \/ TagsEmit
SpecTags == InitTags /\ [][NextTags]_vars

EmitDerive == DeriveTags(MaxEmitCtx, TagArgs)
EmitAll    == EmitAny(Severities, Shapes, EmitKVs)

NextEmit == EmitDerive \/ EmitAll
SpecEmit == InitTags /\ [][NextEmit]_vars

-----------------------------------------------------------------------------
(* The global registry: SetLogger, Logger, InitLogger, the live-reload      *)
(* callback.  One goroutine reconfigures (SetLogger is documented as not    *)
(* thread-safe, and the change source delivers one notification at a time); *)
(* any number of goroutines read.                                           *)

\* SetLogger(l), entered from wop: globalGuard.Lock()
SetLoggerLock ==
    /\ halted = "run"
    /\ wpc = "lock"
    /\ writer = 0 /\ readers = 0
    /\ writer' = 1
    /\ wpc' = "store"
    /\ UNCHANGED <<global, readers, warg, wop, watchCfg, installed>>

\* Mutant: the assignment is lost (it goes to a shadowing local).
SetLoggerStoreLost ==
    /\ halted = "run"
    /\ wpc = "store"
    /\ wpc' = "unlock"
    /\ UNCHANGED <<global, writer, readers, warg, wop, watchCfg, installed>>

\* global = l
SetLoggerStore ==
    /\ halted = "run"
    /\ wpc = "store"
    /\ global' = warg
    /\ wpc' = "unlock"
    /\ UNCHANGED <<writer, readers, warg, wop, watchCfg, installed>>

\* the deferred globalGuard.Unlock()
SetLoggerUnlock ==
    /\ halted = "run"
    /\ wpc = "unlock"
    /\ writer' = 0
    /\ wpc' = "idle"
    /\ installed' = [l |-> warg, by |-> wop.by, val |-> wop.val]
    /\ UNCHANGED <<global, readers, warg, wop, watchCfg>>

\* A caller enters SetLogger(l).
CallSetLogger(l) ==
    /\ halted = "run"
    /\ wpc = "idle"
    /\ wpc' = "lock"
    /\ warg' = l
    /\ wop' = [by |-> "SetLogger", val |-> None]
    /\ UNCHANGED <<global, writer, readers, watchCfg, installed>>

\* Logger(): globalGuard.RLock()
LoggerRLock ==
    /\ halted = "run"
    /\ writer = 0
    /\ readers < MaxReaders
    /\ readers' = readers + 1
    /\ UNCHANGED <<global, writer, wpc, warg, wop, watchCfg, installed>>

\* return global, then the deferred RUnlock()
LoggerReturn ==
    /\ halted = "run"
    /\ readers > 0
    /\ ret' = [op |-> "Logger", l |-> global, by |-> installed.by]
    /\ readers' = readers - 1
    /\ UNCHANGED <<global, writer, wpc, warg, wop, watchCfg, installed>>

\* Mutant: a level that does not parse clears the logger instead of
\* returning the error.
InitLoggerClears(env, version) ==
    LET cfg == [defaultCfg EXCEPT !.Version = version]
        lvl == zapLevelFromString(env.LogLevel)
    IN  /\ halted = "run"
        /\ wpc = "idle"
        /\ IF env.err
           THEN /\ ret' = [op |-> "InitLogger", err |-> "config"]
                /\ UNCHANGED <<wpc, warg, wop>>
           ELSE /\ wpc' = "lock"
                /\ warg' = IF lvl.err THEN NilLogger ELSE New(lvl.lvl, cfg)
                /\ wop' = [by |-> "InitLogger", val |-> Str(env.LogLevel)]
                /\ UNCHANGED ret
        /\ UNCHANGED <<global, writer, readers, watchCfg, installed>>

\* InitLogger(prefix, version).  env is what envconfig.InitWithPrefix does:
\* an error, or the loaded settings (the defaults, with the LogLevel found).
InitLogger(env, version) ==
    LET cfg == [defaultCfg EXCEPT !.Version = version]
        lvl == zapLevelFromString(env.LogLevel)
    IN  /\ halted = "run"
        /\ wpc = "idle"
        /\ IF env.err
           THEN /\ ret' = [op |-> "InitLogger", err |-> "config"]
                /\ UNCHANGED <<wpc, warg, wop>>
           ELSE IF lvl.err
           THEN /\ ret' = [op |-> "InitLogger", err |-> "level"]
                /\ UNCHANGED <<wpc, warg, wop>>
           ELSE /\ wpc' = "lock"
                /\ warg' = New(lvl.lvl, cfg)
                /\ wop' = [by |-> "InitLogger", val |-> Str(env.LogLevel)]
                /\ UNCHANGED ret
        /\ UNCHANGED <<global, writer, readers, watchCfg, installed>>

\* safeErrorf: Logger() under the read lock (no writer is inside SetLogger:
\* the caller is the reconfiguring goroutine), then Errorf unless it is nil.
safeErrorf ==
    IF global.nil THEN UNCHANGED emitted
    ELSE emitted' = [op |-> "emit", sev |-> "error", method |-> "f", kvs |-> <<>>,
                     tagged |-> FALSE, given |-> <<>>, ctx |-> Background, l |-> global]

\* Mutant: the error of zapLevelFromString is not checked.
OnConfigChangeUnchecked(newVal, version) ==
    LET ok  == DOMAIN newVal = {"str"}
        lvl == zapLevelFromString(newVal.str)
    IN  /\ halted = "run"
        /\ wpc = "idle"
        /\ IF ~ok
           THEN /\ safeErrorf
                /\ UNCHANGED <<wpc, warg, wop, watchCfg>>
           ELSE /\ watchCfg' = [watchCfg EXCEPT !.Version = version]
                /\ wpc' = "lock"
                /\ warg' = New(lvl.lvl, watchCfg')
                /\ wop' = [by |-> "Watch", val |-> newVal]
                /\ UNCHANGED emitted
        /\ UNCHANGED <<global, writer, readers, installed>>

\* The callback WatchAndRebuildLogger registers, called with newVal.
OnConfigChange(newVal, version) ==
    LET ok  == DOMAIN newVal = {"str"}
        lvl == zapLevelFromString(newVal.str)
    IN  /\ halted = "run"
        /\ wpc = "idle"
        /\ IF ~ok
           THEN /\ safeErrorf
                /\ UNCHANGED <<wpc, warg, wop, watchCfg>>
           ELSE IF lvl.err
           THEN /\ safeErrorf
                /\ UNCHANGED <<wpc, warg, wop, watchCfg>>
           ELSE /\ watchCfg' = [watchCfg EXCEPT !.Version = version]
                /\ wpc' = "lock"
                /\ warg' = New(lvl.lvl, watchCfg')
                /\ wop' = [by |-> "Watch", val |-> newVal]
                /\ UNCHANGED emitted
        /\ UNCHANGED <<global, writer, readers, installed>>

-----------------------------------------------------------------------------
(* Context derivation with a logger *)

ToContext(c, l) ==
    /\ halted = "run"
    /\ ctxs' = WithValue(c, "logger", l, [op |-> "ToContext"])
    /\ UNCHANGED heap

\* Mutant: a key that is not a string ends the loop (break for continue).
RECURSIVE KVLoopBreak(_, _, _, _)
KVLoopBreak(kvs, i, result, warns) ==
    IF ~(i <= Len(kvs)) THEN [fields |-> result, warns |-> warns]
    ELSE IF i = Len(kvs) THEN [fields |-> result, warns |-> warns]
    ELSE IF ~IsString(kvs[i]) THEN [fields |-> result, warns |-> warns + 1]
    ELSE KVLoopBreak(kvs, i + 2, Append(result, <<kvs[i], kvs[i + 1]>>), warns)

\* The loop of ContextWithKV over kvs from index i (1-based here), with the
\* fields collected so far and the warnings logged so far.
RECURSIVE KVLoop(_, _, _, _)
KVLoop(kvs, i, result, warns) ==
    IF ~(i <= Len(kvs)) THEN [fields |-> result, warns |-> warns]
    ELSE IF i = Len(kvs) THEN [fields |-> result, warns |-> warns]
    ELSE IF ~IsString(kvs[i]) THEN KVLoop(kvs, i + 2, result, warns + 1)
    ELSE KVLoop(kvs, i + 2, Append(result, <<kvs[i], kvs[i + 1]>>), warns)

ContextWithKV(c, kvs) ==
    LET l == FromContext(c)
        r == KVLoop(kvs, 1, <<>>, 0)
    IN  /\ halted = "run"
        /\ racy' = (writer = 1)
        /\ lastKV' = [op |-> "ContextWithKV", ctx |-> c, l |-> l, kvs |-> kvs,
                      warns |-> IF l.nil THEN 0 ELSE r.warns]
        /\ IF l.nil
           THEN /\ halted' = "panic"
                /\ UNCHANGED <<ctxs, heap>>
           ELSE /\ ctxs' = WithValue(c, "logger", LoggerWith(l, r.fields),
                                     [op |-> "ContextWithKV", base |-> l])
                /\ UNCHANGED <<heap, halted>>

\* A call of FromContext(c) by any goroutine.
Resolve(c) ==
    /\ halted = "run"
    /\ racy' = (writer = 1)
    /\ ret' = [op |-> "FromContext", ctx |-> c, l |-> FromContext(c)]

-----------------------------------------------------------------------------
(* Spec: the registry under concurrent readers, with contexts *)

\* what a caller passes to SetLogger or ToContext: a nil pointer, or New(nil, &cfg)
UserLoggers == {NilLogger, New(NoLevel, [defaultCfg EXCEPT !.Host = ""])}
\* handles the application holds from an earlier Logger() or FromContext()
Obtained == IF ret.op \in {"Logger", "FromContext"} THEN {ret.l} ELSE {}
EnvOutcomes == {[err |-> TRUE, LogLevel |-> ""],
                [err |-> FALSE, LogLevel |-> "error"],
                [err |-> FALSE, LogLevel |-> "verbose"]}
NotifyValues == {Str("WARN"), Str("verbose"), IntV(7)}
AppVersion == "1.2.3"

otherVars == <<racy, ret, emitted, lastKV, halted>>

RegSetLogger ==
    \E l \in UserLoggers :
        CallSetLogger(l) /\ UNCHANGED <<ctxVars, otherVars, gateVars>>
RegLock   == SetLoggerLock   /\ UNCHANGED <<ctxVars, otherVars, gateVars>>
RegStore  == SetLoggerStore  /\ UNCHANGED <<ctxVars, otherVars, gateVars>>
RegUnlock == SetLoggerUnlock /\ UNCHANGED <<ctxVars, otherVars, gateVars>>
RegRLock  == LoggerRLock     /\ UNCHANGED <<ctxVars, otherVars, gateVars>>
RegLogger == LoggerReturn    /\ UNCHANGED <<ctxVars, racy, emitted, lastKV, halted, gateVars>>
RegInitLogger ==
    \E env \in EnvOutcomes :
        InitLogger(env, AppVersion)
        /\ UNCHANGED <<ctxVars, racy, emitted, lastKV, halted, gateVars>>
NotifyWith(v) ==
    OnConfigChange(v, AppVersion)
    /\ UNCHANGED <<ctxVars, racy, ret, lastKV, halted, gateVars>>
RegNotify == \E v \in NotifyValues : NotifyWith(v)
RegResolve ==
    \E c \in CtxIds :
        Resolve(c) /\ UNCHANGED <<ctxVars, regVars, emitted, lastKV, halted, gateVars>>
\* the application attaches a handle it obtained to the root context
RegToContext ==
    \E c \in {Background}, l \in Obtained :
        /\ Len(ctxs) < MaxRegCtx
        /\ ToContext(c, l)
        /\ UNCHANGED <<regVars, otherVars, gateVars>>
RegWithTags == DeriveTags(MaxRegCtx, {<<TagA>>})

Init == InitCommon /\ InitNoGate
Next ==
    \/ RegSetLogger \/ RegLock \/ RegStore \/ RegUnlock
    \/ RegRLock \/ RegLogger
    \/ RegInitLogger \/ RegNotify
    \/ RegResolve \/ RegToContext \/ RegWithTags
Spec == Init /\ [][Next]_vars

-----------------------------------------------------------------------------
(* SpecWatch: the registry alone, every writer and the Logger() reader *)

NextWatch ==
    \/ RegSetLogger \/ RegLock \/ RegStore \/ RegUnlock
    \/ RegRLock \/ RegLogger
    \/ RegInitLogger \/ RegNotify
SpecWatch == Init /\ [][NextWatch]_vars

-----------------------------------------------------------------------------
(* SpecPin: contexts that carry a handle, while the global handle is replaced *)

PinKVs == {<<Str("k"), IntV(7)>>}

PinToContext ==
    \E c \in CtxIds, l \in {FromContext(d) : d \in CtxIds} :
        /\ Len(ctxs) < MaxPinCtx
        /\ ToContext(c, l)
        /\ UNCHANGED <<regVars, otherVars, gateVars>>
PinWithKV ==
    \E c \in CtxIds, kvs \in PinKVs :
        /\ Len(ctxs) < MaxPinCtx
        /\ ContextWithKV(c, kvs)
        /\ UNCHANGED <<regVars, ret, emitted, gateVars>>
PinWithTags == DeriveTags(MaxPinCtx, {<<TagA>>})
PinEmit     == EmitAny({"warn"}, {"kv"}, {<<>>})

\* live-reload severity changes
PinNotify   == \E v \in {Str("WARN"), Str("error")} : NotifyWith(v)

NextPin ==
    \/ PinNotify \/ RegLock \/ RegStore \/ RegUnlock
    \/ PinToContext \/ PinWithKV \/ PinWithTags \/ PinEmit
SpecPin == Init /\ [][NextPin]_vars

-----------------------------------------------------------------------------
(* SpecKV: ContextWithKV applied once to a context and a kvs list *)

KVValues == {Str("a"), IntV(7)}
KVInputs == UNION {[1 .. n -> KVValues] : n \in 0 .. MaxKV}

\* the contexts ContextWithKV is applied to: Background, and one given a
\* handle by ToContext
InitKV ==
    /\ InitCommon /\ InitNoGate
KVToContext ==
    \E l \in UserLoggers :
        /\ ctxs = <<>>
        /\ ToContext(Background, l)
        /\ UNCHANGED <<regVars, otherVars, gateVars>>
KVApply ==
    \E c \in CtxIds, kvs \in KVInputs :
        /\ lastKV = None
        /\ ContextWithKV(c, kvs)
        /\ UNCHANGED <<regVars, ret, emitted, gateVars>>
NextKV == KVToContext \/ KVApply
SpecKV == InitKV /\ [][NextKV]_vars

-----------------------------------------------------------------------------
(* SpecGate: coreWithLevel *)

\* zapcore.Level.Enabled
LevelEnabled(lvl, l) == l >= lvl

\* Mutant: the embedded core's Enabled is used (the method is not overridden).
EnabledInner(c, l) == LevelEnabled(c.inner.lvl, l)

Enabled(c, l) == LevelEnabled(c.level, l)

\* ce.AddCore(ent, c) when enabled; ce is the list of cores checked in so far
Check(c, entLevel, ce) ==
    IF Enabled(c, entLevel) THEN Append(ce, c) ELSE ce

\* c.Core.With(fields) of the wrapped core: its own level, the fields added
CoreWith(inner, fields) == [inner EXCEPT !.fields = @ \o fields]

With(c, fields) == [inner |-> CoreWith(c.inner, fields), level |-> c.level]

\* the function WithLevel hands to zap.WrapCore
WithLevel(lvl, inner) == [inner |-> inner, level |-> lvl]

InitGate ==
    /\ InitCommon
    /\ \E innerLvl \in Levels, lvl \in Levels :
          /\ core = WithLevel(lvl, [lvl |-> innerLvl, fields |-> <<>>])
          /\ checked = [op |-> "WithLevel", target |-> lvl]
GateWith ==
    /\ Len(core.inner.fields) < MaxWith
    /\ core' = With(core, <<"k">>)
    /\ UNCHANGED <<checked, ctxVars, regVars, otherVars>>
GateEnabled ==
    \E l \in Levels :
        /\ checked' = [op |-> "Enabled", target |-> checked.target, lvl |-> l,
                       res |-> Enabled(core, l)]
        /\ UNCHANGED <<core, ctxVars, regVars, otherVars>>
GateCheck ==
    \E l \in Levels :
        /\ checked' = [op |-> "Check", target |-> checked.target, lvl |-> l,
                       res |-> Check(core, l, <<>>)]
        /\ UNCHANGED <<core, ctxVars, regVars, otherVars>>
NextGate == GateWith \/ GateEnabled \/ GateCheck
SpecGate == InitGate /\ [][NextGate]_vars

-----------------------------------------------------------------------------
(* Properties of tag accumulation and emission *)

TagCtxs == {c \in 1 .. Len(ctxs) : ctxs[c].key = "tags"}

\* The keys of a key-value list: its elements at odd positions.
KeysOf(kvs) == [j \in 1 .. (Len(kvs) \div 2) |-> kvs[2 * j - 1]]

\* '#' + (t without spaces) + ' ' for each tag, in order.
Rendered(tags) ==
    Flatten([i \in 1 .. Len(tags) |-> <<"#">> \o StripSpaces(tags[i]) \o <<" ">>])

\* C1: deriving a context with WithTags never changes the tag list of any
\* existing context: every context's list, read at any later time, is its
\* parent's list followed by the tags it was derived with, whatever was
\* derived from the same parent before or after it.
C1_DerivationsIndependent ==
    \A c \in TagCtxs : TagsOf(c) = ctxs[c].call

\* C2: when the context carries a tag list, the key-value list handed to the
\* resolved logger is the caller's pairs followed by exactly one hashtags
\* pair, for every severity and call shape.
C2_OneHashtagsField ==
    (emitted.op = "emit" /\ emitted.tagged) =>
        /\ Count(KeysOf(emitted.kvs), tagsName) = 1
        /\ Len(emitted.kvs) = Len(emitted.given) + 2
        /\ SubSeq(emitted.kvs, 1, Len(emitted.given)) = emitted.given
        /\ emitted.kvs[Len(emitted.kvs) - 1] = tagsName

\* C3: the string rendered at emission is the concatenation, in insertion
\* order, of '#' + tag-without-spaces + ' ' over the tags accumulated by the
\* nested derivations that lead to the context.
C3_RenderedInOrder ==
    (emitted.op = "emit" /\ emitted.tagged) =>
        emitted.kvs[Len(emitted.kvs)] = Text(Rendered(WantedTags(emitted.ctx)))

-----------------------------------------------------------------------------
(* Properties of the registry *)

DefaultLogger == New(AtomicLevel(InfoLevel), defaultCfg)

\* C4: FromContext on a context with no attached logger returns the global
\* handle, and whenever no SetLogger is in progress that is the argument of
\* the SetLogger that returned last, whichever of SetLogger, InitLogger and
\* the live-reload callback made the call.
C4_ResolveSeesInstalled ==
    /\ \A c \in CtxIds : ~HasLogger(c) => FromContext(c) = global
    /\ writer = 0 =>
          \A c \in CtxIds : ~HasLogger(c) => FromContext(c) = installed.l

C4_Witness ==
    /\ ret.op = "FromContext" /\ ret.ctx # Background /\ ~HasLogger(ret.ctx)
    /\ writer = 0 /\ wpc = "idle"
    /\ installed.by = "Watch"
    /\ ret.l = installed.l /\ ret.l # DefaultLogger

\* C5: no read of the global handle happens outside globalGuard while the
\* writer holds the write lock.
C5_ReadsUnderLock == ~racy

\* C7: a notification whose value is not a string or does not parse as a
\* level changes neither the registry nor the settings; a handle installed
\* by the callback was built from a value that parses, at that level and
\* from the settings with the version patched, and is the active handle
\* once its SetLogger has returned.
Parses(v) == DOMAIN v = {"str"} /\ ~zapLevelFromString(v.str).err

C7_InvalidDropped ==
    /\ [][\A v \in NotifyValues :
            (NotifyWith(v) /\ ~Parses(v)) =>
                UNCHANGED <<global, watchCfg, installed, wpc, warg, wop, writer>>]_vars
    /\ [][\A v \in NotifyValues :
            (NotifyWith(v) /\ Parses(v)) =>
                /\ wpc' = "lock"
                /\ warg' = New(zapLevelFromString(v.str).lvl,
                               [watchCfg EXCEPT !.Version = AppVersion])]_vars
    /\ [](installed.by = "Watch" =>
            /\ Parses(installed.val)
            /\ watchCfg.Version = AppVersion
            /\ installed.l = New(zapLevelFromString(installed.val.str).lvl, watchCfg)
            /\ (writer = 0 => global = installed.l))

C7_Witness ==
    /\ installed.by = "Watch" /\ wpc = "idle" /\ global = installed.l
    /\ emitted.op = "emit" /\ emitted.sev = "error" /\ emitted.l = installed.l

\* C9 as stated: Logger() never returns nil, and before any replace it
\* returns the handle built from the default settings at info.
C9_NeverNil ==
    ret.op = "Logger" =>
        /\ ~ret.l.nil
        /\ ret.by = "init" => ret.l = DefaultLogger

\* C9 amended: Logger() returns nil only after a caller passed nil to
\* SetLogger; before any replace it returns the default handle at info, and
\* after InitLogger or a live reload a handle built by New.
C9_NilOnlyFromSetLogger ==
    /\ ret.op = "Logger" =>
          /\ ret.l.nil => ret.by = "SetLogger"
          /\ ret.by = "init" => ret.l = DefaultLogger
    /\ global.nil => (IF wpc = "unlock" THEN wop.by ELSE installed.by) = "SetLogger"

C9_Witness ==
    /\ ret.op = "Logger" /\ ret.by = "InitLogger" /\ ~ret.l.nil
    /\ ret.l # DefaultLogger

-----------------------------------------------------------------------------
(* Properties of contexts that carry a handle *)

LoggerCtxs == {c \in 1 .. Len(ctxs) : ctxs[c].key = "logger"}

\* the complete pairs of a kvs list, in order
PairsOf(kvs) == [j \in 1 .. (Len(kvs) \div 2) |-> <<kvs[2 * j - 1], kvs[2 * j]>>]
WellFormedPairs(kvs) == SelectSeq(PairsOf(kvs), LAMBDA pr : IsString(pr[1]))
BadKeyPairs(kvs)     == SelectSeq(PairsOf(kvs), LAMBDA pr : ~IsString(pr[1]))

C10_Pinned ==
    /\ [][\A c \in CtxIds : HasLogger(c) => FromContext(c)' = FromContext(c)]_vars
    /\ [](\A c \in LoggerCtxs :
            ctxs[c].call.op = "ContextWithKV" =>
                /\ FromContext(c).lvl = ctxs[c].call.base.lvl
                /\ SubSeq(FromContext(c).fields, 1, Len(ctxs[c].call.base.fields))
                       = ctxs[c].call.base.fields)
    /\ [](\A c \in CtxIds : ~HasLogger(c) => FromContext(c) = global)
    /\ []((emitted.op = "emit" /\ HasLogger(emitted.ctx)) =>
            emitted.l = FromContext(emitted.ctx))

C10_Witness ==
    /\ installed.by = "Watch" /\ writer = 0
    /\ emitted.op = "emit" /\ emitted.tagged
    /\ HasLogger(emitted.ctx)
    /\ emitted.l = DefaultLogger
    /\ global.lvl # emitted.l.lvl
    /\ FromContext(Background) = global

-----------------------------------------------------------------------------
(* Properties of coreWithLevel *)

\* C8: a core wrapped by WithLevel(T), and every core obtained from it by
\* With, reports level L enabled, and Check adds the core, exactly when
\* L >= T, whatever the level of the wrapped core.
C8_GateDecides ==
    /\ core.level = checked.target
    /\ checked.op = "Enabled" => (checked.res <=> checked.lvl >= checked.target)
    /\ checked.op = "Check" =>
          /\ Len(checked.res) = (IF checked.lvl >= checked.target THEN 1 ELSE 0)
          /\ \A i \in 1 .. Len(checked.res) : checked.res[i].level = checked.target

C8_Witness ==
    /\ checked.op = "Check" /\ checked.target = 1 /\ checked.lvl = 2
    /\ Len(checked.res) = 1
    /\ core.inner.lvl = 5
    /\ Len(core.inner.fields) = MaxWith


====
